---- MODULE Spec2Model ----
(***************************************************************************)
(* A model of the TCP load balancer of src/loadbalancer.c: the bootstrap   *)
(* of the backend pool (init_servers), the accept loop and dispatcher      *)
(* (main, assign_client) and the per-backend worker thread (routine).      *)
(*                                                                         *)
(* Threads: "main" (bootstrap, then accept loop + dispatcher) and one      *)
(* worker per live pool slot.  A pthread_mutex_lock is a step whose guard  *)
(* is "the mutex is free", so that blocking, lock order and deadlock are   *)
(* visible.  A critical section inside which the thread neither blocks nor *)
(* requests another lock (the scan's read, the worker's test-and-snapshot, *)
(* the worker's decrement, the debug prints under the identity lock) is    *)
(* one step together with its lock and unlock; the dispatcher's insertion, *)
(* which takes two locks in turn, keeps one step per lock.                 *)
(***************************************************************************)
EXTENDS Integers, Sequences, FiniteSets

\* ------------------------------------------------------------------ bounds
\* Pool size.  The source sets MAX_SERVERS to 10 (loadbalancer.h:4); the
\* model keeps the name and shrinks the value.
MAX_SERVERS == 2

\* Capacity of every backend.  The source sets 1000 (loadbalancer.h:19).
DEFAULT_SERVER_MAX_CONNECTIONS == 2

\* Number of clients the listener ever accepts in a run of the model.
MaxClients == 3

\* ------------------------------------------------------- program constants
\* poll(2) event bits (Linux <poll.h>), used at loadbalancer.c:197 and :332.
POLLIN == 1

POLLERR == 8

POLLHUP == 16

\* First descriptor a process gets after stdin, stdout, stderr.
FIRST_FD == 3

\* ------------------------------------------------------------------- state
VARIABLES
    servers,          \* servers[i]: TRUE iff the pool slot is non-NULL
    sockfd,           \* server_details.sockfd of the record in slot i
    upstream,         \* state of the connection on that socket
    num_connections,  \* connection_details.num_connections, per slot
    max_connections,  \* connection_details.max_connections, per slot
    cd_lock,          \* owner of connection_details.lock: "free" or "main"
    pollin_lock,      \* owner of server_pollin.lock
    client_pollin_fds,\* per slot: array of [fd, events]
    assigned_clients, \* per slot: array of client pointers
    clients,          \* the heap of client_t records, by pointer
    peer,             \* per descriptor: what the remote end of that connection has done
    main_pc,          \* position of the main thread
    main_i,           \* loop index i of init_servers / assign_client
    num_connected,    \* init_servers: local num_connected
    load,             \* assign_client: local load, a fraction <<num, den>>
    server,           \* assign_client: local server (a slot, or NULL)
    client,           \* assign_client: argument client (a pointer, or NULL)
    client_id,        \* main: local client_id
    next_fd,          \* lowest unused file descriptor of the process
    exit_code,        \* value main returned, once it has
    w_pc,             \* position of each worker thread
    w_n,              \* routine: local num_connections (the snapshot)
    w_i,              \* routine: loop index i
    w_revents,        \* routine: fds[0..n-1].revents as written by poll
    scan_read,        \* history: the loads the current scan has read
    fresh,            \* history: clients dispatched since the worker's last snapshot
    dec_count,        \* history: EOF decrements performed for each client
    created           \* history: worker threads created for each slot

poolVars == <<servers, max_connections>>
sockVars == <<sockfd, upstream>>
connVars == <<num_connections, cd_lock>>
pollVars == <<pollin_lock, client_pollin_fds, assigned_clients>>
heapVars == <<clients, peer>>
mainVars == <<main_pc, main_i, num_connected, load, server, client, client_id, next_fd,
             exit_code>>
workVars == <<w_pc, w_n, w_i, w_revents>>
histVars == <<scan_read, fresh, dec_count, created>>
vars == <<poolVars, sockVars, connVars, pollVars, heapVars, mainVars, workVars, histVars>>

Slots == 0 .. (MAX_SERVERS - 1)
Ptrs == 0 .. (MaxClients - 1)
\* Descriptors the process can hold: one per dial attempt, the listener, one per
\* accepted client; none is ever closed.
Fds == FIRST_FD .. (FIRST_FD + MAX_SERVERS + MaxClients)
NULL == -1
\* Content of malloc'ed memory that has not been written yet.
UNINIT == -1
NoRead == <<0, 0>>

\* Indices of the two parallel arrays of a backend (init_server, lines 44-45).
ArrayIdx(s) == 0 .. (max_connections[s] - 1)

\* ------------------------------------------------------------ load fraction
\* (float)num / (float)max, kept as the exact fraction <<num, max>>.  For the
\* operands that occur (0 <= num <= max <= 1000) the int->float conversions are
\* exact and two different quotients never round to one float, so comparing the
\* floats is comparing the fractions.
LoadOf(s) == <<num_connections[s], max_connections[s]>>

InitialLoad == <<1, 1>>

\* Faulty variant of the comparison: <= for <.
LoadLessOrEqual(a, b) == a[1] * b[2] <= b[1] * a[2]

\* temp_load < load (line 313)
LoadLess(a, b) == a[1] * b[2] < b[1] * a[2]

\* --------------------------------------------------------------- allocation
\* Faulty variant of the allocation: one record reused for every client.
SameRecord(k) == 0

\* malloc(sizeof(client_t)) (line 369): the k-th allocation; nothing is freed,
\* so every call returns a pointer no earlier call returned.
malloc_client(k) == k

\* Faulty variant of the index: every client written to slot 0.
InsertAtZero(n) == 0

\* The index assign_client writes: the value of num_connections (line 329).
InsertIndex(n) == n

\* Faulty variant of the poll entry: the client id stored for the socket.
FdFromId(c) == clients[c].id

\* The descriptor stored in the poll entry: client->sockfd (line 331).
InsertFd(c) == clients[c].sockfd

\* -------------------------------------------------------------------- Init
\* Process start: the global servers[] is zero-initialised (line 20), no worker
\* thread exists, no client has been accepted, descriptors 0..2 are in use.
\* No backend record exists yet: its fields have no value before init_server
\* stores one.
Init ==
    /\ servers = [s \in Slots |-> FALSE]
    /\ sockfd = [s \in Slots |-> UNINIT]
    /\ upstream = [s \in Slots |-> "none"]
    /\ num_connections = [s \in Slots |-> UNINIT]
    /\ max_connections = [s \in Slots |-> DEFAULT_SERVER_MAX_CONNECTIONS]
    /\ cd_lock = [s \in Slots |-> "free"]
    /\ pollin_lock = [s \in Slots |-> "free"]
    /\ client_pollin_fds =
         [s \in Slots |-> [k \in 0 .. (DEFAULT_SERVER_MAX_CONNECTIONS - 1) |->
                              [fd |-> UNINIT, events |-> UNINIT]]]
    /\ assigned_clients =
         [s \in Slots |-> [k \in 0 .. (DEFAULT_SERVER_MAX_CONNECTIONS - 1) |-> UNINIT]]
    /\ clients = [c \in Ptrs |-> [id |-> UNINIT, sockfd |-> UNINIT]]
    /\ peer = [f \in Fds |-> "none"]
    /\ main_pc = "init_servers"
    /\ main_i = 0
    /\ num_connected = 0
    /\ load = InitialLoad
    /\ server = NULL
    /\ client = NULL
    /\ client_id = 0
    /\ next_fd = FIRST_FD
    /\ exit_code = UNINIT
    /\ w_pc = [s \in Slots |-> "none"]
    /\ w_n = [s \in Slots |-> 0]
    /\ w_i = [s \in Slots |-> 0]
    /\ w_revents = [s \in Slots |-> <<>>]
    /\ scan_read = [s \in Slots |-> NoRead]
    /\ fresh = [s \in Slots |-> {}]
    /\ dec_count = [c \in Ptrs |-> 0]
    /\ created = [s \in Slots |-> 0]

\* The process is alive: main has neither returned nor been killed by a fault.
\* When it is not, every thread of the process is gone.
Running == main_pc \notin {"crashed", "exited"}

\* --------------------------------------------------------------- bootstrap
\* init_servers, lines 233-234: clear the pool, then load the roster.  The
\* roster file decides how many leading slots init_server populates (at most
\* MAX_SERVERS, line 91); each gets num_connections = 0 and the default
\* capacity (lines 38-39, 92) and two freshly malloc'ed arrays (lines 44-45).
\* init_server takes the record's connection-details lock for the two stores
\* (lines 37-41); no other thread exists yet.
LoadServersMetadata(m) ==
    /\ main_pc = "init_servers"
    /\ \A s \in Slots : cd_lock[s] = "free"
    /\ servers' = [s \in Slots |-> s < m]
    /\ num_connections' = [s \in Slots |-> IF s < m THEN 0 ELSE UNINIT]
    /\ max_connections' = [s \in Slots |-> DEFAULT_SERVER_MAX_CONNECTIONS]
    /\ main_pc' = "connect"
    /\ main_i' = 0
    /\ num_connected' = 0
    /\ UNCHANGED <<sockVars, cd_lock, pollVars, heapVars, load, server, client,
                   client_id, next_fd, exit_code, workVars, histVars>>

\* Faulty variant of the removal: the slot of a failed backend is kept.
KeepSlot(i) == servers

\* deallocate_server (lines 57-71): the slot becomes NULL.
deallocate_server(i) == [servers EXCEPT ![i] = FALSE]

\* Value of main's return statement (line 384), on every path to it.
EXIT_STATUS == 0

\* Faulty variant of the exit path: the pool is torn down on the way out.
TeardownAtExit(pool) == [s \in Slots |-> FALSE]

\* The label cleanup_and_exit (lines 382-384): nothing is deallocated, the
\* pool is left as it is.
cleanup_and_exit(pool) == pool

\* for-loop of init_servers left (line 261) and main's test of the count
\* (lines 344-347): zero connected backends ends the process.
AfterConnectLoop(i, n) ==
    IF i < MAX_SERVERS THEN "connect"
    ELSE IF n = 0 THEN "exited" ELSE "init_inbound"

\* What main has returned when its next position is pc.
ReturnOf(pc) == IF pc = "exited" THEN EXIT_STATUS ELSE UNINIT

\* The pool after a step of the connect loop that leaves it as pool and takes
\* main to pc.
PoolAt(pc, pool) == IF pc = "exited" THEN cleanup_and_exit(pool) ELSE pool

\* One iteration of the connect loop (lines 239-259) on an empty slot.
ConnectSkip ==
    /\ main_pc = "connect"
    /\ main_i < MAX_SERVERS
    /\ ~servers[main_i]
    /\ main_i' = main_i + 1
    /\ main_pc' = AfterConnectLoop(main_i + 1, num_connected)
    /\ exit_code' = ReturnOf(main_pc')
    /\ servers' = PoolAt(main_pc', servers)
    /\ UNCHANGED <<max_connections, sockVars, connVars, pollVars, heapVars,
                   num_connected, load, server, client, client_id, next_fd,
                   workVars, histVars>>

\* connect_to_server returned -1 (lines 243-246): socket() took a descriptor
\* (line 138, never closed), the backend is deallocated, no thread is created.
\* The record, and the sockfd field in it, are freed.
ConnectFail ==
    /\ main_pc = "connect"
    /\ main_i < MAX_SERVERS
    /\ servers[main_i]
    /\ next_fd' = next_fd + 1
    /\ main_i' = main_i + 1
    /\ main_pc' = AfterConnectLoop(main_i + 1, num_connected)
    /\ exit_code' = ReturnOf(main_pc')
    /\ servers' = PoolAt(main_pc', deallocate_server(main_i))
    /\ UNCHANGED <<max_connections, sockVars, connVars, pollVars, heapVars,
                   num_connected, load, server, client, client_id, workVars,
                   histVars>>

\* connect succeeded, pthread_create failed (lines 253-257): no thread exists,
\* the backend is deallocated; its connected descriptor is never closed.
CreateFail ==
    /\ main_pc = "connect"
    /\ main_i < MAX_SERVERS
    /\ servers[main_i]
    /\ next_fd' = next_fd + 1
    /\ main_i' = main_i + 1
    /\ main_pc' = AfterConnectLoop(main_i + 1, num_connected)
    /\ exit_code' = ReturnOf(main_pc')
    /\ servers' = PoolAt(main_pc', deallocate_server(main_i))
    /\ UNCHANGED <<max_connections, sockVars, connVars, pollVars, heapVars,
                   num_connected, load, server, client, client_id, workVars,
                   histVars>>

\* connect and pthread_create succeeded (lines 243-258): the record holds the
\* connected socket (line 138, 150), the worker starts at the top of routine's
\* loop and the count of connected backends goes up.
ConnectOk ==
    /\ main_pc = "connect"
    /\ main_i < MAX_SERVERS
    /\ servers[main_i]
    /\ sockfd' = [sockfd EXCEPT ![main_i] = next_fd]
    /\ upstream' = [upstream EXCEPT ![main_i] = "connected"]
    /\ w_pc' = [w_pc EXCEPT ![main_i] = "lock_cd"]
    /\ created' = [created EXCEPT ![main_i] = @ + 1]
    /\ num_connected' = num_connected + 1
    /\ next_fd' = next_fd + 1
    /\ main_i' = main_i + 1
    /\ main_pc' = AfterConnectLoop(main_i + 1, num_connected + 1)
    /\ exit_code' = ReturnOf(main_pc')
    /\ servers' = PoolAt(main_pc', servers)
    /\ UNCHANGED <<max_connections, connVars, pollVars, heapVars, load, server,
                   client, client_id, w_n, w_i, w_revents, scan_read, fresh,
                   dec_count>>

\* init_inbound_socket (lines 271-294, 350-353): the listener takes the next
\* descriptor, or main goes to cleanup_and_exit and returns.
InitInboundOk ==
    /\ main_pc = "init_inbound"
    /\ main_pc' = "accept"
    /\ next_fd' = next_fd + 1
    /\ UNCHANGED <<poolVars, sockVars, connVars, pollVars, heapVars, main_i,
                   num_connected, load, server, client, client_id, exit_code,
                   workVars, histVars>>

InitInboundFail ==
    /\ main_pc = "init_inbound"
    /\ main_pc' = "exited"
    /\ exit_code' = ReturnOf(main_pc')
    /\ servers' = PoolAt(main_pc', servers)
    /\ UNCHANGED <<max_connections, sockVars, connVars, pollVars, heapVars,
                   main_i, num_connected, load, server, client, client_id,
                   next_fd, workVars, histVars>>

\* ------------------------------------------------------------- accept loop
\* main, lines 361-379: accept returned a descriptor; a client record is
\* malloc'ed, given id = client_id++ and the descriptor, and assign_client is
\* entered (load = 1, server = NULL, lines 304-305).  The remote end exists
\* from here on.  A failed accept (lines 363-366) changes nothing.
Accept ==
    /\ main_pc = "accept"
    /\ client_id < MaxClients
    /\ LET c == malloc_client(client_id) IN
         /\ clients' = [clients EXCEPT ![c] = [id |-> client_id, sockfd |-> next_fd]]
         /\ peer' = [peer EXCEPT ![next_fd] = "open"]
         /\ client' = c
    /\ client_id' = client_id + 1
    /\ next_fd' = next_fd + 1
    /\ load' = InitialLoad
    /\ server' = NULL
    /\ main_i' = 0
    /\ main_pc' = "scan"
    /\ scan_read' = [s \in Slots |-> NoRead]
    /\ UNCHANGED <<poolVars, sockVars, connVars, pollVars, num_connected,
                   exit_code, workVars, fresh, dec_count, created>>

\* -------------------------------------------------------------- dispatcher
AfterScan(i) == IF i < MAX_SERVERS THEN "scan" ELSE "debug_print"

\* assign_client, line 307: an empty slot is skipped.
ScanSkip ==
    /\ main_pc = "scan"
    /\ main_i < MAX_SERVERS
    /\ ~servers[main_i]
    /\ main_i' = main_i + 1
    /\ main_pc' = AfterScan(main_i + 1)
    /\ UNCHANGED <<poolVars, sockVars, connVars, pollVars, heapVars, num_connected, load,
                   server, client, client_id, next_fd, exit_code, workVars, histVars>>

\* assign_client, lines 309-316: under the slot's connection-details lock read
\* num_connections and max_connections, release, and keep the slot when its
\* load is below the best so far.  Lock, read and unlock are one step: the
\* step waits until the lock is free.
ScanRead ==
    /\ main_pc = "scan"
    /\ main_i < MAX_SERVERS
    /\ servers[main_i]
    /\ cd_lock[main_i] = "free"
    /\ LET temp_load == LoadOf(main_i) IN
         /\ scan_read' = [scan_read EXCEPT ![main_i] = temp_load]
         /\ IF LoadLess(temp_load, load)
            THEN load' = temp_load /\ server' = main_i
            ELSE UNCHANGED <<load, server>>
    /\ main_i' = main_i + 1
    /\ main_pc' = AfterScan(main_i + 1)
    /\ UNCHANGED <<poolVars, sockVars, connVars, pollVars, heapVars, num_connected,
                   client, client_id, next_fd, exit_code, workVars, fresh, dec_count, created>>

\* assign_client, lines 320-322 with server == NULL: pthread_mutex_lock is
\* handed the address NULL + offsetof(server_details.lock), a page that is
\* never mapped; the access faults and the process is killed.
NullDereference ==
    /\ main_pc = "debug_print"
    /\ server = NULL
    /\ main_pc' = "crashed"
    /\ UNCHANGED <<poolVars, sockVars, connVars, pollVars, heapVars, main_i, num_connected,
                   load, server, client, client_id, next_fd, exit_code, workVars, histVars>>

\* assign_client, lines 320-326 with a backend selected: the debug print, then
\* the connection-details lock of the selected backend is taken.
AssignLockCd ==
    /\ main_pc = "debug_print"
    /\ server # NULL
    /\ cd_lock[server] = "free"
    /\ cd_lock' = [cd_lock EXCEPT ![server] = "main"]
    /\ main_pc' = "lock_pollin"
    /\ scan_read' = [s \in Slots |-> NoRead]
    /\ UNCHANGED <<poolVars, sockVars, num_connections, pollVars, heapVars, main_i,
                   num_connected, load, server, client, client_id, next_fd,
                   exit_code, workVars, fresh, dec_count, created>>

\* assign_client, line 327.
AssignLockPollin ==
    /\ main_pc = "lock_pollin"
    /\ pollin_lock[server] = "free"
    /\ pollin_lock' = [pollin_lock EXCEPT ![server] = "main"]
    /\ main_pc' = "insert"
    /\ UNCHANGED <<poolVars, sockVars, connVars, client_pollin_fds, assigned_clients,
                   heapVars, main_i, num_connected, load, server, client,
                   client_id, next_fd, exit_code, workVars, histVars>>

\* pthread_cond_signal (line 336): a worker blocked in pthread_cond_wait on
\* this backend's condition leaves the wait queue (it still has to re-acquire
\* the mutex); with no waiter the call does nothing.
cond_signal(s) == [w_pc EXCEPT ![s] = IF @ = "wait" THEN "wake" ELSE @]

\* assign_client, lines 329-340: both arrays are written at index
\* num_connections, the count is incremented, the condition is signalled, both
\* locks are released and the call returns to the accept loop; the locals of
\* the call are gone.  Both locks are held from the first write to the last.
AssignInsert ==
    /\ main_pc = "insert"
    /\ LET k == InsertIndex(num_connections[server]) IN
         /\ assigned_clients' = [assigned_clients EXCEPT ![server][k] = client]
         /\ client_pollin_fds' = [client_pollin_fds EXCEPT
                ![server][k] = [fd |-> InsertFd(client), events |-> POLLIN]]
    /\ num_connections' = [num_connections EXCEPT ![server] = @ + 1]
    /\ w_pc' = cond_signal(server)
    /\ pollin_lock' = [pollin_lock EXCEPT ![server] = "free"]
    /\ cd_lock' = [cd_lock EXCEPT ![server] = "free"]
    /\ fresh' = [fresh EXCEPT ![server] = @ \cup {client}]
    /\ main_pc' = "accept"
    /\ main_i' = 0
    /\ load' = InitialLoad
    /\ server' = NULL
    /\ client' = NULL
    /\ UNCHANGED <<poolVars, sockVars, heapVars, num_connected, client_id, next_fd,
                   exit_code, w_n, w_i, w_revents, scan_read, dec_count, created>>

\* ------------------------------------------------------------------ worker
\* routine, lines 177-179 at the top of the loop, and the return of
\* pthread_cond_wait (which re-acquires the mutex): with the mutex free the
\* worker takes it, finds num_connections <= 0 and pthread_cond_wait releases
\* the mutex again and suspends the thread on the condition.  Lock, test and
\* release are one step; it waits until the mutex is free.
WorkerWait(s) ==
    /\ Running
    /\ w_pc[s] \in {"lock_cd", "wake"}
    /\ cd_lock[s] = "free"
    /\ num_connections[s] <= 0
    /\ w_pc' = [w_pc EXCEPT ![s] = "wait"]
    /\ UNCHANGED <<poolVars, sockVars, connVars, pollVars, heapVars, mainVars,
                   w_n, w_i, w_revents, histVars>>

\* int num_connections = connection_details->num_connections (line 181).
Snapshot(n) == n

\* routine, lines 177-182: with the mutex free the worker takes it, finds
\* num_connections > 0, copies it to the local and releases the mutex.
WorkerSnapshot(s) ==
    /\ Running
    /\ w_pc[s] \in {"lock_cd", "wake"}
    /\ cd_lock[s] = "free"
    /\ num_connections[s] > 0
    /\ w_n' = [w_n EXCEPT ![s] = Snapshot(num_connections[s])]
    /\ w_pc' = [w_pc EXCEPT ![s] = "lock_pollin"]
    /\ fresh' = [fresh EXCEPT ![s] = {}]
    /\ UNCHANGED <<poolVars, sockVars, connVars, pollVars, heapVars, mainVars,
                   w_i, w_revents, scan_read, dec_count, created>>

\* pthread_cond_wait may return without a signal (POSIX spurious wake-up).
WorkerSpuriousWake(s) ==
    /\ Running
    /\ w_pc[s] = "wait"
    /\ w_pc' = [w_pc EXCEPT ![s] = "wake"]
    /\ UNCHANGED <<poolVars, sockVars, connVars, pollVars, heapVars, mainVars,
                   w_n, w_i, w_revents, histVars>>

\* routine, line 184.
WorkerLockPollin(s) ==
    /\ Running
    /\ w_pc[s] = "lock_pollin"
    /\ pollin_lock[s] = "free"
    /\ pollin_lock' = [pollin_lock EXCEPT ![s] = "worker"]
    /\ w_pc' = [w_pc EXCEPT ![s] = "poll"]
    /\ UNCHANGED <<poolVars, sockVars, connVars, client_pollin_fds, assigned_clients,
                   heapVars, mainVars, w_n, w_i, w_revents, histVars>>

\* What the remote end of descriptor fd has done; a number that is no open
\* descriptor has none.
PeerState(fd) == IF fd \in DOMAIN peer THEN peer[fd] ELSE "none"

\* The revents poll(2) can report for a descriptor polled for POLLIN: nothing
\* while the connection is idle; POLLIN when bytes or the end of the stream
\* (the peer's FIN) are queued; for a connection in error POLLERR, alone or
\* with POLLHUP and POLLIN, as the platform has it.
Revents(fd) ==
    CASE PeerState(fd) \in {"data", "eof"} -> {POLLIN}
      [] PeerState(fd) = "err" -> {POLLERR, POLLERR + POLLHUP + POLLIN}
      [] OTHER -> {0}

\* The slots poll looks at: the first n entries of fds (line 186).
Polled(s) == 0 .. (w_n[s] - 1)

\* routine, lines 186, 190-194: poll failed (a negative return); revents are
\* not read, the lock is released and the loop restarts.
WorkerPollError(s) ==
    /\ Running
    /\ w_pc[s] = "poll"
    /\ pollin_lock' = [pollin_lock EXCEPT ![s] = "free"]
    /\ w_pc' = [w_pc EXCEPT ![s] = "lock_cd"]
    /\ w_n' = [w_n EXCEPT ![s] = 0]
    /\ UNCHANGED <<poolVars, sockVars, connVars, client_pollin_fds, assigned_clients,
                   heapVars, mainVars, w_i, w_revents, histVars>>

\* routine, lines 186, 190-194: poll timed out with no descriptor ready.
WorkerPollTimeout(s) ==
    /\ Running
    /\ w_pc[s] = "poll"
    /\ \A k \in Polled(s) : Revents(client_pollin_fds[s][k].fd) = {0}
    /\ pollin_lock' = [pollin_lock EXCEPT ![s] = "free"]
    /\ w_pc' = [w_pc EXCEPT ![s] = "lock_cd"]
    /\ w_n' = [w_n EXCEPT ![s] = 0]
    /\ UNCHANGED <<poolVars, sockVars, connVars, client_pollin_fds, assigned_clients,
                   heapVars, mainVars, w_i, w_revents, histVars>>

\* routine, lines 186, 196: poll returned a positive count and wrote revents
\* of the first n entries; the for-loop starts at i = 0.
WorkerPollReady(s) ==
    /\ Running
    /\ w_pc[s] = "poll"
    /\ \E rv \in [Polled(s) -> {0, POLLIN, POLLERR, POLLERR + POLLHUP + POLLIN}] :
         /\ \A k \in Polled(s) : rv[k] \in Revents(client_pollin_fds[s][k].fd)
         /\ \E k \in Polled(s) : rv[k] # 0
         /\ w_revents' = [w_revents EXCEPT ![s] = rv]
    /\ w_i' = [w_i EXCEPT ![s] = 0]
    /\ w_pc' = [w_pc EXCEPT ![s] = "loop"]
    /\ UNCHANGED <<poolVars, sockVars, connVars, pollVars, heapVars, mainVars, w_n, histVars>>

\* The test of line 197, fds[i].revents && POLLIN: a logical AND of two
\* integers, true iff both are nonzero.
ReadyTest(revents) == revents # 0 /\ POLLIN # 0

\* The descriptor and the client record of slot i of backend s.
SlotFd(s) == client_pollin_fds[s][w_i[s]].fd
SlotClient(s) == assigned_clients[s][w_i[s]]

\* i++ of the for-loop (line 196); when i reaches n the loop is left, the
\* poll-entries lock is released (line 220) and the while-loop restarts with
\* fresh locals.  The revents of the slot just handled are not read again
\* before poll rewrites them, and are dropped.
Advance(s) ==
    IF w_i[s] + 1 < w_n[s]
    THEN /\ w_i' = [w_i EXCEPT ![s] = @ + 1]
         /\ UNCHANGED <<w_n, pollin_lock>>
         /\ w_revents' = [w_revents EXCEPT ![s][w_i[s]] = 0]
         /\ w_pc' = [w_pc EXCEPT ![s] = "loop"]
    ELSE /\ w_i' = [w_i EXCEPT ![s] = 0]
         /\ w_n' = [w_n EXCEPT ![s] = 0]
         /\ w_revents' = [w_revents EXCEPT ![s] = <<>>]
         /\ pollin_lock' = [pollin_lock EXCEPT ![s] = "free"]
         /\ w_pc' = [w_pc EXCEPT ![s] = "lock_cd"]

\* routine, line 197: the test fails for slot i, nothing is read.
WorkerSkipSlot(s) ==
    /\ Running
    /\ w_pc[s] = "loop"
    /\ ~ReadyTest(w_revents[s][w_i[s]])
    /\ Advance(s)
    /\ UNCHANGED <<poolVars, sockVars, connVars, client_pollin_fds, assigned_clients,
                   heapVars, mainVars, histVars>>

\* char buf[1024] (line 199) and the length recv is given (line 200).
BUF_SIZE == 1024

RECV_MAX == 1023

\* recv(fds[i].fd, buf, 1023, 0) (line 200): the values the call can return
\* for a connection in state st: the number of queued bytes taken (from 1 to
\* the length given; the two ends are taken here), 0 at the end of the stream,
\* -1 for a pending error.  It is only called on a connection poll has
\* reported, which is not idle.
recv(st) ==
    CASE st = "data" -> {1, RECV_MAX}
      [] st = "eof" -> {0}
      [] st = "err" -> {-1}
      [] OTHER -> {}

\* The index of the terminator write buf[count] = '\0' (line 202).
TermIndex(count) == count

\* The value of count after the terminator write.  Inside the buffer the write
\* touches buf only.  buf[-1] is outside the array (undefined behaviour): the
\* byte below buf is unused padding or the most significant byte of the local
\* the build placed there; of the locals of routine only count (-1 here) has
\* a nonzero byte there, and clearing it makes count 2^24 - 1.
AfterTerminator(count) ==
    IF TermIndex(count) \in 0 .. (BUF_SIZE - 1)
    THEN {count}
    ELSE {count, count % (2 ^ 24)}

\* Faulty variant of the test: an error return taken for a disconnect.
NonPositive(count) == count <= 0

\* count == 0 (line 203)
IsDisconnect(count) == count = 0

\* count > 0 (line 209)
IsData(count) == count > 0

\* routine, lines 200-202, 209-216: recv took count > 0 queued bytes; they
\* are printed and dropped.  What was queued is consumed: the connection is
\* idle again.
WorkerReadData(s) ==
    /\ Running
    /\ w_pc[s] = "loop"
    /\ ReadyTest(w_revents[s][w_i[s]])
    /\ \E count \in recv(PeerState(SlotFd(s))) :
         /\ count > 0
         /\ \E c \in AfterTerminator(count) : ~IsDisconnect(c) /\ IsData(c)
    /\ peer' = [peer EXCEPT ![SlotFd(s)] = "open"]
    /\ Advance(s)
    /\ UNCHANGED <<poolVars, sockVars, connVars, client_pollin_fds, assigned_clients,
                   clients, mainVars, histVars>>

\* routine, lines 200-216: recv returned a negative count (the connection's
\* pending error).  After the terminator write the branch of line 203 is not
\* taken; the branch of line 209 is not taken either, or (count clobbered)
\* prints the buffer.  The error is consumed by the call: later reads see the
\* end of the stream.
WorkerReadError(s) ==
    /\ Running
    /\ w_pc[s] = "loop"
    /\ ReadyTest(w_revents[s][w_i[s]])
    /\ \E count \in recv(PeerState(SlotFd(s))) :
         /\ count < 0
         /\ \E c \in AfterTerminator(count) : ~IsDisconnect(c)
    /\ peer' = [peer EXCEPT ![SlotFd(s)] = "eof"]
    /\ Advance(s)
    /\ UNCHANGED <<poolVars, sockVars, connVars, client_pollin_fds, assigned_clients,
                   clients, mainVars, histVars>>

\* routine, lines 200-206: the branch of line 203 is taken (recv returned 0);
\* the worker, still holding the poll-entries lock, goes to lock the
\* connection details.
WorkerReadEof(s) ==
    /\ Running
    /\ w_pc[s] = "loop"
    /\ ReadyTest(w_revents[s][w_i[s]])
    /\ \E count \in recv(PeerState(SlotFd(s))) :
         \E c \in AfterTerminator(count) : IsDisconnect(c)
    /\ w_pc' = [w_pc EXCEPT ![s] = "dec"]
    /\ UNCHANGED <<poolVars, sockVars, connVars, pollVars, heapVars, mainVars,
                   w_n, w_i, w_revents, histVars>>

\* Faulty variant of the decrement: the disconnect counted twice.
DecrementTwice(n) == n - 2

\* connection_details->num_connections-- (line 207).
Decrement(n) == n - 1

\* Faulty variant of the decrement's locking: the lock is not taken.
NoLockForDecrement(s) == TRUE

\* pthread_mutex_lock(&connection_details->lock) of line 206 returns: the
\* mutex is free and becomes the worker's.
LockForDecrement(s) == cd_lock[s] = "free"

\* routine, lines 206-208: once the connection-details lock is free the worker
\* takes it, decrements the count and releases it; the arrays are left as they
\* are.  The worker holds the poll-entries lock throughout.
WorkerDecrement(s) ==
    /\ Running
    /\ w_pc[s] = "dec"
    /\ LockForDecrement(s)
    /\ num_connections' = [num_connections EXCEPT ![s] = Decrement(@)]
    /\ UNCHANGED cd_lock
    /\ dec_count' = [dec_count EXCEPT ![SlotClient(s)] = @ + 1]
    /\ Advance(s)
    /\ UNCHANGED <<poolVars, sockVars, client_pollin_fds, assigned_clients, heapVars,
                   mainVars, scan_read, fresh, created>>

\* One step of the worker of slot s.
Worker(s) ==
    \/ WorkerWait(s)
    \/ WorkerSnapshot(s)
    \/ WorkerSpuriousWake(s)
    \/ WorkerLockPollin(s)
    \/ WorkerPollError(s)
    \/ WorkerPollTimeout(s)
    \/ WorkerPollReady(s)
    \/ WorkerSkipSlot(s)
    \/ WorkerReadData(s)
    \/ WorkerReadError(s)
    \/ WorkerReadEof(s)
    \/ WorkerDecrement(s)

\* ------------------------------------------------------------- remote ends
\* The descriptor belongs to the client assign_client is still dispatching.
\* Nothing reads a connection before its descriptor is in a poll entry, so
\* what the remote end does meanwhile is taken as done right after the insert.
Dispatching(fd) == client # NULL /\ clients[client].sockfd = fd

\* The client sends bytes.
ClientSend(fd) ==
    /\ Running
    /\ ~Dispatching(fd)
    /\ peer[fd] = "open"
    /\ peer' = [peer EXCEPT ![fd] = "data"]
    /\ UNCHANGED <<poolVars, sockVars, connVars, pollVars, clients, mainVars, workVars, histVars>>

\* The client closes its socket (after what it sent has been read): the end
\* of the stream is queued.
ClientClose(fd) ==
    /\ Running
    /\ ~Dispatching(fd)
    /\ peer[fd] = "open"
    /\ peer' = [peer EXCEPT ![fd] = "eof"]
    /\ UNCHANGED <<poolVars, sockVars, connVars, pollVars, clients, mainVars, workVars, histVars>>

\* The connection is reset: the socket has a pending error.
ClientReset(fd) ==
    /\ Running
    /\ ~Dispatching(fd)
    /\ peer[fd] = "open"
    /\ peer' = [peer EXCEPT ![fd] = "err"]
    /\ UNCHANGED <<poolVars, sockVars, connVars, pollVars, clients, mainVars, workVars, histVars>>

\* --------------------------------------------------------- specifications
Main ==
    \/ \E m \in 0 .. MAX_SERVERS : LoadServersMetadata(m)
    \/ ConnectSkip
    \/ ConnectFail
    \/ CreateFail
    \/ ConnectOk
    \/ InitInboundOk
    \/ InitInboundFail
    \/ Accept
    \/ ScanSkip
    \/ ScanRead
    \/ NullDereference
    \/ AssignLockCd
    \/ AssignLockPollin
    \/ AssignInsert

Next ==
    \/ Main
    \/ \E s \in Slots : Worker(s)
    \/ \E fd \in Fds : ClientSend(fd)
    \/ \E fd \in Fds : ClientClose(fd)
    \/ \E fd \in Fds : ClientReset(fd)

Spec == Init /\ [][Next]_vars

\* Fair scheduling: a thread that can take a step eventually takes one (weak
\* fairness of each thread's steps), the dispatcher obtains the poll-entries
\* lock if the worker keeps releasing it, and poll reports a descriptor that
\* stays ready instead of failing for ever (strong fairness of these two).
\* Nothing obliges a client to connect, send, close or reset, poll to fail, or
\* pthread_cond_wait to wake spuriously.
MainStep ==
    \/ \E m \in 0 .. MAX_SERVERS : LoadServersMetadata(m)
    \/ ConnectSkip
    \/ ConnectFail
    \/ CreateFail
    \/ ConnectOk
    \/ InitInboundOk
    \/ InitInboundFail
    \/ ScanSkip
    \/ ScanRead
    \/ NullDereference
    \/ AssignLockCd
    \/ AssignInsert

WorkerStep(s) ==
    \/ WorkerWait(s)
    \/ WorkerSnapshot(s)
    \/ WorkerLockPollin(s)
    \/ WorkerPollTimeout(s)
    \/ WorkerSkipSlot(s)
    \/ WorkerReadData(s)
    \/ WorkerReadError(s)
    \/ WorkerReadEof(s)
    \/ WorkerDecrement(s)

FairSpec ==
    /\ Spec
    /\ WF_vars(MainStep)
    /\ SF_vars(AssignLockPollin)
    /\ \A s \in Slots : WF_vars(WorkerStep(s)) /\ SF_vars(WorkerPollReady(s))

\* ------------------------------------------------------------------ claims
\* Helpers of the claims, stated apart from the definitions of the program.
Live == {s \in Slots : servers[s]}
InRange(s) == 0 .. (num_connections[s] - 1)
FracLess(a, b) == a[1] * b[2] < b[1] * a[2]
FracEq(a, b) == a[1] * b[2] = b[1] * a[2]
\* The backend whose arrays hold client c somewhere (it was dispatched there).
HeldBy(c) == {s \in Slots : \E k \in ArrayIdx(s) : assigned_clients[s][k] = c}
Disconnected(fd) == peer[fd] \in {"eof", "err"}

\* C1: in every reachable state every live backend has
\* 0 <= num_connections <= max_connections.
C1_CountInRange ==
    \A s \in Live :
        0 <= num_connections[s] /\ num_connections[s] <= max_connections[s]

\* A backend that was full is in a multiplex pass over all its clients, has
\* decremented once for slot 0 and is about to decrement again for slot 1.
C1_Witness ==
    \E s \in Live :
        /\ w_pc[s] = "dec"
        /\ w_i[s] = 1
        /\ w_n[s] = max_connections[s]
        /\ num_connections[s] = max_connections[s] - 1

\* C2: no thread requests a backend's connection-details lock while it holds
\* that backend's poll-entries lock.  The worker requests the connection-details
\* lock at "lock_cd", "wake" and "dec"; the dispatcher while scanning and at
\* "debug_print".
C2_LockOrder ==
    \A s \in Slots :
        /\ w_pc[s] \in {"lock_cd", "wake", "dec"} => pollin_lock[s] # "worker"
        /\ ( \/ (main_pc = "scan" /\ main_i = s)
             \/ (main_pc = "debug_print" /\ server = s) ) => pollin_lock[s] # "main"

\* C3: when the scan of a dispatch has selected a backend, that backend is a
\* live slot whose load, as read by the scan, is below 1.0 and minimal among
\* the live slots, and every live slot of lower index was read with a strictly
\* greater load.
C3_LeastLoadedLowestIndex ==
    (main_pc = "debug_print" /\ server # NULL) =>
        /\ server \in Live
        /\ FracLess(scan_read[server], <<1, 1>>)
        /\ \A t \in Live : ~FracLess(scan_read[t], scan_read[server])
        /\ \A t \in Live : t < server => FracLess(scan_read[server], scan_read[t])

\* A scan over two live backends read the same nonzero load for both and kept
\* the lower-indexed one.
C3_Witness ==
    /\ main_pc = "debug_print"
    /\ Live = Slots
    /\ server = 0
    /\ scan_read[0][1] > 0
    /\ \A t \in Live : FracEq(scan_read[t], scan_read[0])

\* C4: a dispatch whose scan selected no backend returns to the accept loop
\* without touching any backend: the dispatcher's next step leaves
\* num_connections and both arrays of every backend as they are.
C4_NoSelectionDropsClient ==
    [][(main_pc = "debug_print" /\ server = NULL /\ main_pc' # main_pc) =>
          /\ main_pc' = "accept"
          /\ UNCHANGED <<num_connections, client_pollin_fds, assigned_clients>>]_vars

\* C5: whenever a live backend's poll-entries lock is free, each slot below
\* num_connections holds a client record and that record's socket in the poll
\* entry.
C5_ParallelArrays ==
    \A s \in Live : pollin_lock[s] = "free" =>
        \A i \in InRange(s) :
            /\ assigned_clients[s][i] \in Ptrs
            /\ client_pollin_fds[s][i].fd = clients[assigned_clients[s][i]].sockfd

\* Two clients were dispatched to a backend, a disconnect was accounted, and
\* one slot is still in range.
C5_Witness ==
    \E s \in Live :
        /\ pollin_lock[s] = "free"
        /\ num_connections[s] = 1
        /\ assigned_clients[s][1] \in Ptrs
        /\ dec_count[assigned_clients[s][0]] > 0

\* C6: no client record is in slots [0, num_connections) of two distinct
\* backends.
C6_NoSharedClient ==
    \A s \in Live : \A t \in Live : s # t =>
        \A i \in InRange(s) : \A j \in InRange(t) :
            assigned_clients[s][i] # assigned_clients[t][j]

\* Two backends each hold a client in range.
C6_Witness ==
    \E s \in Live : \E t \in Live :
        s # t /\ num_connections[s] > 0 /\ num_connections[t] > 0

\* C7: a worker suspended in the condition wait whose backend has
\* num_connections > 0 (a client was dispatched to it) eventually is in the
\* multiplexer call.
C7_NoLostWakeup ==
    \A s \in Slots :
        (w_pc[s] \in {"wait", "wake"} /\ num_connections[s] > 0) ~> (w_pc[s] = "poll")

\* C8: when the worker takes its snapshot, every client whose dispatch to this
\* backend completed since the previous snapshot is in a slot below the
\* snapshot.
C8_NextPollCovers ==
    [][\A s \in Slots :
          (w_pc[s] \in {"lock_cd", "wake"} /\ w_pc'[s] = "lock_pollin") =>
              \A c \in fresh[s] : \E k \in 0 .. (w_n'[s] - 1) : assigned_clients[s][k] = c]_vars

\* C9: once a client that was dispatched to a backend has closed its socket,
\* the worker eventually reads 0 for it and decrements num_connections --
\* as long as the process lives.
C9_DisconnectAccounted ==
    \A c \in Ptrs :
        (Running /\ HeldBy(c) # {} /\ peer[clients[c].sockfd] = "eof")
            ~> (dec_count[c] > 0 \/ ~Running)

\* C10: with one live backend and no client disconnected, between dispatches
\* num_connections is the number of clients dispatched and slot i holds the
\* i-th of them.
C10_SingleBackendOrder ==
    \A s \in Slots :
        (Live = {s} /\ main_pc = "accept" /\ \A fd \in Fds : ~Disconnected(fd)) =>
            /\ num_connections[s] = client_id
            /\ \A i \in 0 .. (client_id - 1) :
                   /\ assigned_clients[s][i] \in Ptrs
                   /\ clients[assigned_clients[s][i]].id = i

\* The only live backend was filled to capacity while its worker ran passes.
C10_Witness ==
    \E s \in Slots :
        /\ Live = {s}
        /\ main_pc = "accept"
        /\ \A fd \in Fds : ~Disconnected(fd)
        /\ client_id = max_connections[s]
        /\ w_pc[s] = "loop"

\* init_servers has returned.
Bootstrapped == main_pc \notin {"init_servers", "connect"}

\* C11: once init_servers has returned, every non-empty pool slot holds a
\* connected upstream socket and has had exactly one worker created, which
\* runs as long as the process does; an empty slot never had a worker; and
\* the count init_servers returned is the number of non-empty slots.
C11_BootstrapPool ==
    Bootstrapped =>
        /\ \A s \in Slots : servers[s] =>
               /\ sockfd[s] \in Fds
               /\ upstream[s] = "connected"
               /\ created[s] = 1
               /\ Running => w_pc[s] # "none"
        /\ \A s \in Slots : ~servers[s] => (created[s] = 0 /\ w_pc[s] = "none")
        /\ num_connected = Cardinality(Live)

\* Bootstrap is over with the first backend removed after a failed attempt
\* (its dial took the first descriptor) and the second one connected.
C11_Witness ==
    /\ main_pc = "init_inbound"
    /\ ~servers[0]
    /\ servers[1]
    /\ sockfd[1] = FIRST_FD + 1
    /\ num_connected = 1

\* C12: with at least one backend connected bootstrap goes on to the listener
\* and the accept loop; with none connected, or when the listener cannot be
\* created, main returns a nonzero exit code, and it has accepted no client.
C12_FatalExitNonzero ==
    /\ (Bootstrapped /\ num_connected = 0) => main_pc = "exited"
    /\ main_pc = "init_inbound" => num_connected > 0
    /\ main_pc = "exited" => (client_id = 0 /\ exit_code # 0)

\* The bit flag is set in the events word rv.
HasFlag(rv, flag) == (rv \div flag) % 2 = 1

\* This step is a read by the worker of backend s on the slot it is at: recv
\* consumed queued bytes or a pending error, or returned 0.
ReadsSlot(s) ==
    /\ w_pc[s] = "loop"
    /\ \/ w_pc'[s] = "dec"
       \/ PeerState(SlotFd(s)) = "data" /\ peer'[SlotFd(s)] = "open"
       \/ PeerState(SlotFd(s)) = "err" /\ peer'[SlotFd(s)] = "eof"

\* C13: the worker reads slot i of a pass only if the events poll returned for
\* the slot have the read-ready flag; a slot with nonzero events without that
\* flag is not read (and so cannot lead to a decrement).
C13_ReadOnlyWhenReadable ==
    [][\A s \in Slots : ReadsSlot(s) => HasFlag(w_revents[s][w_i[s]], POLLIN)]_vars

\* C14: every step that changes a backend's num_connections is taken by a
\* thread holding that backend's connection-details lock: record construction
\* and the worker's decrement take the free lock and release it within the
\* step, the dispatcher's increment is made while the dispatcher owns it; and
\* the worker's snapshot is read under the lock it has just taken.
C14_CountMutatedUnderLock ==
    [][\A s \in Slots :
          /\ num_connections'[s] # num_connections[s] =>
                \/ main_pc = "init_servers" /\ cd_lock[s] = "free"
                \/ main_pc = "insert" /\ server = s /\ cd_lock[s] = "main"
                \/ w_pc[s] = "dec" /\ cd_lock[s] = "free"
          /\ (w_n'[s] # w_n[s] /\ w_n'[s] > 0) => cd_lock[s] = "free"]_vars

\* A backend was constructed, a client dispatched to it was accounted as
\* disconnected, another was dispatched and the worker took a new snapshot.
C14_Witness ==
    \E s \in Live :
        /\ assigned_clients[s][0] \in Ptrs
        /\ dec_count[assigned_clients[s][0]] > 0
        /\ num_connections[s] > 0
        /\ w_n[s] > 0

\* C15 as stated: a pool slot is written only while no worker thread has been
\* created yet.
C15_PoolWrittenBeforeAnyWorker ==
    [][servers' # servers => \A s \in Slots : created[s] = 0]_vars

\* C15 as amended: a pool slot is written only before init_servers has
\* returned, and only while no worker has been created for that slot; workers
\* of other slots may exist.
C15_PoolWrittenInBootstrap ==
    [][\A s \in Slots :
          servers'[s] # servers[s] => (~Bootstrapped /\ created[s] = 0)]_vars

\* Bootstrap is over; the first backend has its worker, and the second was
\* removed after its failed attempt, which took the second descriptor.
C15_Witness ==
    /\ main_pc = "init_inbound"
    /\ servers[0]
    /\ created[0] = 1
    /\ ~servers[1]
    /\ next_fd = FIRST_FD + 2

\* This step is a step of the worker of backend s, on a slot it handles after
\* recv returned a negative value.
NegativeRead(s) ==
    /\ w_pc[s] = "loop"
    /\ ReadyTest(w_revents[s][w_i[s]])
    /\ \E count \in recv(PeerState(SlotFd(s))) : count < 0
    /\ (w_pc'[s] # w_pc[s] \/ w_i'[s] # w_i[s])

\* C16: a read that returns a negative value does not take the disconnect
\* branch and leaves num_connections and both arrays of the backend as they
\* were; afterwards the connection is in a state poll reports, so the slot can
\* be reported again on the next pass.
C16_NegativeReadFrame ==
    [][\A s \in Slots : NegativeRead(s) =>
          /\ w_pc'[s] # "dec"
          /\ num_connections'[s] = num_connections[s]
          /\ client_pollin_fds'[s] = client_pollin_fds[s]
          /\ assigned_clients'[s] = assigned_clients[s]
          /\ peer'[SlotFd(s)] \in {"data", "eof", "err"}]_vars

\* The worker of a backend with two clients in range is at the second slot,
\* whose connection has a pending error, and is about to read it.
C16_Witness ==
    \E s \in Live :
        /\ w_pc[s] = "loop"
        /\ w_i[s] = 1
        /\ num_connections[s] = 2
        /\ ReadyTest(w_revents[s][1])
        /\ PeerState(SlotFd(s)) = "err"

\* C20: at every read of the worker, whatever recv returns there, the
\* terminator write buf[count] is at an index of the buffer:
\* 0 <= count <= BUF_SIZE - 1.
C20_TerminatorInBuffer ==
    [][\A s \in Slots : ReadsSlot(s) =>
          \A count \in recv(PeerState(SlotFd(s))) :
              TermIndex(count) \in 0 .. (BUF_SIZE - 1)]_vars

\* C17: the dispatcher and a worker are never each waiting for a lock of the
\* same backend that the other holds (the dispatcher, owning the
\* connection-details lock, at its request for the poll-entries lock; the
\* worker, owning the poll-entries lock, at its request for the
\* connection-details lock).
C17_NoLockCycle ==
    \A s \in Slots :
        ~ ( /\ main_pc = "lock_pollin"
            /\ server = s
            /\ cd_lock[s] = "main"
            /\ w_pc[s] = "dec"
            /\ pollin_lock[s] = "worker" )

\* Client c was accepted and its dispatch has completed.
Dispatched(c) == clients[c].id # UNINIT /\ client # c

\* The worker of backend s is between passes: it holds no lock.
BetweenPasses(s) == w_pc[s] \in {"lock_cd", "wait", "wake"}

\* C18: no client is accounted as disconnected more than once; and with one
\* backend in the pool, whenever its worker is between passes num_connections
\* is the number of dispatched clients not yet accounted as disconnected.
C18_DisconnectOnce ==
    /\ \A c \in Ptrs : dec_count[c] <= 1
    /\ \A s \in Slots : (Live = {s} /\ BetweenPasses(s)) =>
           num_connections[s] =
               Cardinality({c \in Ptrs : Dispatched(c) /\ dec_count[c] = 0})

\* C19: whenever the poll-entries locks are free, every dispatched client that
\* has not closed its socket is in a slot below num_connections of some
\* backend.
C19_ConnectedClientInRange ==
    (\A s \in Live : pollin_lock[s] = "free") =>
        \A c \in Ptrs :
            (Dispatched(c) /\ PeerState(clients[c].sockfd) \in {"open", "data"}) =>
                \E s \in Live : \E i \in InRange(s) : assigned_clients[s][i] = c

====
